---- MODULE Spec2Model ----
(***************************************************************************)
(* Campaign send pipeline of bulk_mailer: recipient resolution, dispatch,  *)
(* per-recipient send tasks, completion tracking, send-now and scheduler.  *)
(* Modelled from src/marketing_emails/tasks.py, src/mailer_app/models.py   *)
(* and src/mailer_app/views.py.  One campaign row is modelled; every       *)
(* database statement of a task is one step, so that tasks interleave at   *)
(* the granularity the database gives them.                                *)
(***************************************************************************)
EXTENDS Naturals, Integers, Sequences, FiniteSets, TLC

\* ---------------------------------------------------------------- bounds
\* number of process_campaign_task invocations ever enqueued
MaxDispatch == 2
\* the same number in the specification of repeated re-sends
MaxResend == 3
\* number of times the task queue delivers a pending send job once more
MaxRedeliver == 2

\* ------------------------------------------------------------ identities
Contacts == {"c1", "c2"}
Lists == {"L1", "L2"}
Segments == {"A", "B", "U"}
Workers == {"w1", "w2"}
Dispatchers == {"d1", "d2"}
Pollers == {"p1", "p2"}
Trackers == {"t1", "t2"}
None == "None"
\* a DateTimeField holding NULL (scheduled_at, sent_at: null=True)
NullTime == 0

\* latest clock value of a run with open tracking
MaxTime == 3

\* Campaign.STATUS_CHOICES
STATUS_CHOICES == {"draft", "scheduled", "queued", "sending", "sent", "failed", "archived"}

\* ------------------------------------------------------------- variables
VARIABLES
  contact,        \* Contact rows: [Contacts -> record]
  campaign,       \* the Campaign row
  settings,       \* the Settings singleton (AppSettings)
  logs,           \* CampaignSendLog rows of the campaign: per contact, in insertion order
  outbox,         \* messages accepted by send_mail, per contact
  send_queue,     \* pending send_single_email_task jobs, per contact id
  dispatch_queue, \* pending process_campaign_task jobs for the campaign
  worker,         \* running send_single_email_task invocations
  dispatcher,     \* running process_campaign_task invocations
  lock,           \* holder of the row lock taken by select_for_update()
  now,            \* timezone.now()
  ndispatch,      \* process_campaign_task jobs enqueued so far
  nredeliver,     \* send jobs delivered once more so far
  deleted,        \* rows that have been deleted: contact ids and the campaign
  poller,         \* running check_scheduled_campaigns_task invocations
  tracker         \* running track_open requests

vars == <<contact, campaign, settings, logs, outbox, send_queue, dispatch_queue,
          worker, dispatcher, lock, now, ndispatch, nredeliver, deleted, poller,
          tracker>>

\* ------------------------------------------------------- template engine
\* EmailTemplate rows; a field either compiles or raises TemplateSyntaxError
GoodText == "Hi {{first_name}}"
BadText == "{% if %}"
EmailTemplates ==
  [ T_ok   |-> [subject |-> GoodText, html_content |-> GoodText, footer_html |-> GoodText],
    T_body |-> [subject |-> GoodText, html_content |-> BadText,  footer_html |-> GoodText],
    T_foot |-> [subject |-> GoodText, html_content |-> GoodText, footer_html |-> BadText],
    T_subj |-> [subject |-> BadText,  html_content |-> GoodText, footer_html |-> GoodText] ]

\* django.template.Template(text) raises TemplateSyntaxError
TemplateSyntaxError(text) == text = BadText

\* --------------------------------------------------------------- strings
Lower(ch) == IF ch = "A" THEN "a" ELSE IF ch = "C" THEN "c" ELSE ch

LowerStr(s) == [i \in 1..Len(s) |-> Lower(s[i])]

\* SQL ILIKE '%needle%'
icontains(hay, needle) ==
  \E i \in 0..(Len(hay) - Len(needle)) :
     \A j \in 1..Len(needle) : LowerStr(hay)[i + j] = LowerStr(needle)[j]

\* ------------------------------------------------------------- segments
\* Segment.filters as SegmentForm.save writes them
segment ==
  [ A |-> [subscribed |-> "", company |-> <<"a", "c">>, custom_fields |-> <<>>, contact_lists |-> {}],
    B |-> [subscribed |-> "true", company |-> <<>>, custom_fields |-> <<"dept", "Sales">>, contact_lists |-> {"L2"}],
    U |-> [subscribed |-> "false", company |-> <<>>, custom_fields |-> <<>>, contact_lists |-> {}] ]

\* the per-segment queryset built in process_campaign_task
segment_qs(filters) ==
  { c \in Contacts :
      /\ (filters.subscribed # "" => contact[c].subscribed = (filters.subscribed = "true"))
      /\ (filters.company # <<>> => icontains(contact[c].company, filters.company))
      /\ (filters.custom_fields # <<>> => contact[c].custom_fields = filters.custom_fields)
      /\ (filters.contact_lists # {} => contact[c].contact_list \in filters.contact_lists) }

\* mutant: the linked segments are intersected instead of unioned
combined_ids_AND(segs) == { c \in Contacts : \A s \in segs : c \in segment_qs(segment[s]) }

\* combined_ids: the union over the linked segments
combined_ids(segs) == UNION { segment_qs(segment[s]) : s \in segs }

\* mutant: the subscribed filter is dropped
base_qs_NoSubscribed ==
  { c \in Contacts \ deleted : contact[c].email # None /\ contact[c].email # "" }

\* Contact.objects.filter(subscribed=True, email__isnull=False).exclude(email__exact='')
base_qs ==
  { c \in Contacts \ deleted :
      contact[c].subscribed /\ contact[c].email # None /\ contact[c].email # "" }

\* mutant: list members and segment matches are unioned
contacts_to_send_qs_Union(contact_lists, segments) ==
  IF contact_lists # {} /\ segments # {}
    THEN { c \in base_qs : contact[c].contact_list \in contact_lists \/ c \in combined_ids(segments) }
    ELSE IF contact_lists # {}
      THEN { c \in base_qs : contact[c].contact_list \in contact_lists }
    ELSE IF segments # {}
      THEN { c \in base_qs : c \in combined_ids(segments) }
    ELSE base_qs

\* contacts_to_send_qs of process_campaign_task, for the linked lists and segments
contacts_to_send_qs(contact_lists, segments) ==
  LET q0 == base_qs
      q1 == IF contact_lists # {}
              THEN { c \in q0 : contact[c].contact_list \in contact_lists }
              ELSE q0
      q2 == IF segments # {}
              THEN { c \in q1 : c \in combined_ids(segments) }
              ELSE q1
  IN q2

\* the recipient count manage_campaigns stores when the campaign is saved
manage_campaigns_total(contact_lists, segments) ==
  IF contact_lists # {} \/ segments # {}
    THEN Cardinality(contacts_to_send_qs(contact_lists, segments))
    ELSE 0

\* ------------------------------------------------------------------ Init
IdleWorker == [pc |-> "idle", contact_id |-> None, subscribed |-> FALSE,
               has_campaign |-> FALSE, log_status |-> "failed", found |-> 0]

\* a track_open request that is not running
IdleTracker == [pc |-> "idle", contact_id |-> None, row |-> 0]

IdleDispatcher == [pc |-> "idle", count |-> 0, live |-> TRUE]

NewCampaign(st, sched, lists, segs, tpl) ==
  [status |-> st, scheduled_at |-> sched, sent_at |-> NullTime,
   total_recipients |-> manage_campaigns_total(lists, segs),
   successfully_sent |-> 0, failed_to_send |-> 0,
   contact_lists |-> lists, segments |-> segs, email_template |-> tpl]

InitRuntime ==
  /\ logs = [c \in Contacts |-> <<>>]
  /\ outbox = [c \in Contacts |-> 0]
  /\ send_queue = [c \in Contacts |-> 0]
  /\ dispatch_queue = 0
  /\ worker = [w \in Workers |-> IdleWorker]
  /\ dispatcher = [d \in Dispatchers |-> IdleDispatcher]
  /\ lock = None
  /\ now = 1
  /\ ndispatch = 0
  /\ nredeliver = 0
  /\ deleted = {}
  /\ poller = [p \in Pollers |-> "idle"]
  /\ tracker = [t \in Trackers |-> IdleTracker]

\* the send pipeline: two subscribed contacts of list L1, a campaign linked to L1
Init ==
  /\ InitRuntime
  /\ contact = [c \in Contacts |->
        [email |-> IF c = "c1" THEN "c1@x.io" ELSE "c2@x.io", subscribed |-> TRUE,
         contact_list |-> "L1", company |-> <<>>, custom_fields |-> <<>>]]
  /\ \E cfg \in { <<"s@x.io", "T_ok">>, <<"", "T_ok">>, <<"s@x.io", None>>,
                  <<"s@x.io", "T_body">>, <<"s@x.io", "T_subj">> } :
       /\ settings = [sender_email |-> cfg[1]]
       /\ campaign = NewCampaign("scheduled", 1, {"L1"}, {}, cfg[2])

\* the recipient resolver: any contacts, any linked lists and segments
ContactRows ==
  [email : {"", "a@x.io"}, subscribed : BOOLEAN, contact_list : {None, "L1", "L2"},
   company : {<<>>, <<"A", "c", "m">>}, custom_fields : {<<>>, <<"dept", "Sales">>}]

\* a dispatch of the campaign has just been enqueued
InitResolve ==
  /\ deleted = {}
  /\ contact \in [Contacts -> ContactRows]
  /\ settings = [sender_email |-> "s@x.io"]
  /\ \E lists \in SUBSET Lists, segs \in SUBSET Segments :
       campaign = NewCampaign("queued", 1, lists, segs, "T_ok")
  /\ logs = [c \in Contacts |-> <<>>]
  /\ outbox = [c \in Contacts |-> 0]
  /\ send_queue = [c \in Contacts |-> 0]
  /\ dispatch_queue = 1
  /\ worker = [w \in Workers |-> IdleWorker]
  /\ dispatcher = [d \in Dispatchers |-> IdleDispatcher]
  /\ lock = None
  /\ now = 1
  /\ ndispatch = 1
  /\ nredeliver = 0
  /\ poller = [p \in Pollers |-> "idle"]
  /\ tracker = [t \in Trackers |-> IdleTracker]

\* --------------------------------------------------------- row lock of the campaign
\* an UPDATE of the campaign row waits while a select_for_update() holds the row
RowFree == lock = None

\* the id of the campaign row in the set of deleted rows
TheCampaign == "campaign"

\* Campaign.objects.get(id=campaign_id) finds the row
CampaignExists == TheCampaign \notin deleted

\* Campaign.objects.filter(pk=...).update(...): no row is touched once the
\* campaign is deleted
UPDATE(row) == IF CampaignExists THEN row ELSE campaign

\* ------------------------------------------------- process_campaign_task
\* mutant: every status is dispatched
DispatchableStatuses_All == STATUS_CHOICES \cup {"retrying"}

\* line 355: the statuses process_campaign_task accepts
DispatchableStatuses == {"draft", "scheduled", "queued", "retrying", "failed", "sending"}

\* lines 354-357: load the campaign, reject a status that is not dispatchable
process_campaign_task_start(d) ==
  /\ dispatcher[d].pc = "idle"
  /\ dispatch_queue > 0
  /\ dispatch_queue' = dispatch_queue - 1
  /\ dispatcher' = [dispatcher EXCEPT ![d].pc =
        IF CampaignExists /\ campaign.status \in DispatchableStatuses THEN "reset" ELSE "idle"]
  /\ UNCHANGED <<contact, campaign, settings, logs, outbox, send_queue, worker,
                 lock, now, ndispatch, nredeliver, deleted, poller, tracker>>

\* mutant: the reset leaves sent_at as it was
reset_campaign_KeepSentAt ==
  [campaign EXCEPT !.status = "sending", !.successfully_sent = 0, !.failed_to_send = 0]

\* lines 359-364: update(status='sending', successfully_sent=0, failed_to_send=0, sent_at=None)
reset_campaign ==
  [campaign EXCEPT !.status = "sending", !.successfully_sent = 0,
                   !.failed_to_send = 0, !.sent_at = NullTime]

\* lines 359-365: one UPDATE resets the counters, clears sent_at, sets sending;
\* refresh_from_db() then raises Campaign.DoesNotExist if the row is gone
process_campaign_task_reset(d) ==
  /\ dispatcher[d].pc = "reset"
  /\ RowFree
  /\ campaign' = UPDATE(reset_campaign)
  /\ dispatcher' = [dispatcher EXCEPT ![d] =
        IF CampaignExists THEN [@ EXCEPT !.pc = "count"] ELSE IdleDispatcher]
  /\ UNCHANGED <<contact, settings, logs, outbox, send_queue, dispatch_queue, worker,
                 lock, now, ndispatch, nredeliver, deleted, poller, tracker>>

\* the rows the queryset yields when it is evaluated now. The list filter is a
\* subquery on the campaign's links (none are left once the campaign is
\* deleted: the link rows cascade); whether a filter is applied at all was
\* decided when the queryset was built (live: the campaign row existed then)
evaluate_qs(live) ==
  IF CampaignExists THEN contacts_to_send_qs(campaign.contact_lists, campaign.segments)
  ELSE IF ~live THEN contacts_to_send_qs({}, {})
  ELSE IF campaign.contact_lists # {} THEN {}
  ELSE contacts_to_send_qs({}, campaign.segments)

\* lines 367-396: build the queryset and run its COUNT
process_campaign_task_count(d) ==
  /\ dispatcher[d].pc = "count"
  /\ dispatcher' = [dispatcher EXCEPT ![d].pc = "total",
        ![d].live = CampaignExists,
        ![d].count = Cardinality(evaluate_qs(CampaignExists))]
  /\ UNCHANGED <<contact, campaign, settings, logs, outbox, send_queue, dispatch_queue,
                 worker, lock, now, ndispatch, nredeliver, deleted, poller, tracker>>

\* line 398: store total_recipients
process_campaign_task_total(d) ==
  /\ dispatcher[d].pc = "total"
  /\ RowFree
  /\ campaign' = UPDATE([campaign EXCEPT !.total_recipients = dispatcher[d].count])
  /\ dispatcher' = [dispatcher EXCEPT ![d].pc = IF dispatcher[d].count = 0 THEN "empty" ELSE "enqueue"]
  /\ UNCHANGED <<contact, settings, logs, outbox, send_queue, dispatch_queue, worker,
                 lock, now, ndispatch, nredeliver, deleted, poller, tracker>>

\* line 402: Campaign.objects.filter(pk=...).update(status='failed', sent_at=timezone.now())
no_valid_contacts == [campaign EXCEPT !.status = "failed", !.sent_at = now]

\* lines 400-403: no recipient, the campaign is marked failed
process_campaign_task_empty(d) ==
  /\ dispatcher[d].pc = "empty"
  /\ RowFree
  /\ campaign' = UPDATE(no_valid_contacts)
  /\ now' = now + 1
  /\ dispatcher' = [dispatcher EXCEPT ![d] = IdleDispatcher]
  /\ UNCHANGED <<contact, settings, logs, outbox, send_queue, dispatch_queue, worker,
                 lock, ndispatch, nredeliver, deleted, poller, tracker>>

\* lines 405-411: iterate the queryset (a second query) and enqueue one job per row
process_campaign_task_enqueue(d) ==
  /\ dispatcher[d].pc = "enqueue"
  /\ send_queue' = [c \in Contacts |->
        IF c \in evaluate_qs(dispatcher[d].live)
          THEN send_queue[c] + 1 ELSE send_queue[c]]
  /\ dispatcher' = [dispatcher EXCEPT ![d] = IdleDispatcher]
  /\ UNCHANGED <<contact, campaign, settings, logs, outbox, dispatch_queue, worker,
                 lock, now, ndispatch, nredeliver, deleted, poller, tracker>>

process_campaign_task(d) ==
  \/ process_campaign_task_start(d)
  \/ process_campaign_task_reset(d)
  \/ process_campaign_task_count(d)
  \/ process_campaign_task_total(d)
  \/ process_campaign_task_empty(d)
  \/ process_campaign_task_enqueue(d)

\* ------------------------------------------------- execute_send_campaign
\* the send-now view: refuse sending/sent/queued campaigns and campaigns without
\* audience or template, else mark queued and enqueue the dispatcher
execute_send_campaign_upto(max) ==
  /\ CampaignExists
  /\ campaign.status \notin {"sending", "sent", "queued"}
  /\ (campaign.contact_lists # {} \/ campaign.segments # {})
  /\ campaign.email_template # None
  /\ ndispatch < max
  /\ RowFree
  /\ campaign' = [campaign EXCEPT !.status = "queued"]
  /\ dispatch_queue' = dispatch_queue + 1
  /\ ndispatch' = ndispatch + 1
  /\ UNCHANGED <<contact, settings, logs, outbox, send_queue, worker, dispatcher,
                 lock, now, nredeliver, deleted, poller, tracker>>

execute_send_campaign == execute_send_campaign_upto(MaxDispatch)

\* ---------------------------------------- check_scheduled_campaigns_task
\* lines 430-449: every due scheduled campaign is saved as queued and its
\* dispatcher enqueued
check_scheduled_campaigns_task ==
  /\ ndispatch < MaxDispatch
  /\ CampaignExists
  /\ campaign.status = "scheduled"
  /\ campaign.scheduled_at # NullTime
  /\ campaign.scheduled_at <= now
  /\ RowFree
  /\ campaign' = [campaign EXCEPT !.status = "queued"]
  /\ dispatch_queue' = dispatch_queue + 1
  /\ ndispatch' = ndispatch + 1
  /\ UNCHANGED <<contact, settings, logs, outbox, send_queue, worker, dispatcher,
                 lock, now, nredeliver, deleted, poller, tracker>>

\* the same task, query by query, for runs that overlap
\* lines 433-437: the campaigns the filter returns
campaigns_to_send ==
  IF /\ CampaignExists
     /\ campaign.status = "scheduled"
     /\ campaign.scheduled_at # NullTime
     /\ campaign.scheduled_at <= now
    THEN {TheCampaign}
    ELSE {}

\* lines 439-443: the queryset is evaluated; the run holds the rows it returned
check_scheduled_campaigns_task_select(p) ==
  /\ poller[p] = "idle"
  /\ campaigns_to_send # {}
  /\ poller' = [poller EXCEPT ![p] = "selected"]
  /\ UNCHANGED <<contact, campaign, settings, logs, outbox, send_queue, dispatch_queue,
                 worker, dispatcher, lock, now, ndispatch, nredeliver, deleted, tracker>>

\* lines 445-447: the held row is saved as queued (update_fields = status) and
\* its dispatcher enqueued
check_scheduled_campaigns_task_promote(p) ==
  /\ poller[p] = "selected"
  /\ RowFree
  /\ campaign' = UPDATE([campaign EXCEPT !.status = "queued"])
  /\ dispatch_queue' = dispatch_queue + 1
  /\ ndispatch' = ndispatch + 1
  /\ poller' = [poller EXCEPT ![p] = "idle"]
  /\ UNCHANGED <<contact, settings, logs, outbox, send_queue, worker, dispatcher,
                 lock, now, nredeliver, deleted, tracker>>

check_scheduled_campaigns_task_run(p) ==
  \/ check_scheduled_campaigns_task_select(p)
  \/ check_scheduled_campaigns_task_promote(p)

\* ---------------------------------------------- unsubscribe_contact_view
unsubscribe_contact_view(c) ==
  /\ c \notin deleted
  /\ contact[c].subscribed
  /\ contact' = [contact EXCEPT ![c].subscribed = FALSE]
  /\ UNCHANGED <<campaign, settings, logs, outbox, send_queue, dispatch_queue, worker,
                 dispatcher, lock, now, ndispatch, nredeliver, deleted, poller, tracker>>

\* ------------------------------------------------ send_single_email_task
\* F('failed_to_send') + 1 and F('successfully_sent') + 1: one atomic UPDATE
inc_failed == [campaign EXCEPT !.failed_to_send = @ + 1]

\* mutant: read-modify-write on the loaded instance, the second write of two
\* overlapping tasks stores the same value as the first
inc_sent_LostUpdate == [campaign EXCEPT !.successfully_sent = IF @ = 0 THEN 1 ELSE @]

\* line 171: F('successfully_sent') + 1
inc_sent == [campaign EXCEPT !.successfully_sent = @ + 1]

\* mutant: a syntax error in the subject counts as a rendering failure too
RenderFails_WithSubject ==
  \/ TemplateSyntaxError(EmailTemplates[campaign.email_template].subject)
  \/ TemplateSyntaxError(EmailTemplates[campaign.email_template].html_content)
  \/ TemplateSyntaxError(EmailTemplates[campaign.email_template].footer_html)

\* lines 114-158: a TemplateSyntaxError in the subject is caught at 117-119 and
\* the raw subject used; one in the body or the footer is re-raised at 154-158
RenderFails ==
  \/ TemplateSyntaxError(EmailTemplates[campaign.email_template].html_content)
  \/ TemplateSyntaxError(EmailTemplates[campaign.email_template].footer_html)

\* mutant: the subscription of the loaded contact is not looked at
Skips_Never(subscribed) == FALSE

\* lines 48-53: `if not contact.subscribed` returns with log_status = 'skipped'
Skips(subscribed) == ~subscribed

\* mutant: the subscription is checked before sender and template
Preconditions_SubscriptionFirst(subscribed) ==
  IF ~subscribed THEN "skip"
  ELSE IF settings.sender_email = "" THEN "cfg_fail"
  ELSE IF campaign.email_template = None THEN "cfg_fail"
  ELSE IF RenderFails THEN "cfg_fail"
  ELSE "deliver"

\* lines 35-158, evaluated on what the task loaded: where the task goes next
\*   "cfg_fail"  sender or template missing, or body/footer syntax error
\*   "skip"      contact unsubscribed
\*   "deliver"   the message is rendered and handed to send_mail
Preconditions(subscribed) ==
  IF settings.sender_email = "" THEN "cfg_fail"
  ELSE IF campaign.email_template = None THEN "cfg_fail"
  ELSE IF Skips(subscribed) THEN "skip"
  ELSE IF RenderFails THEN "cfg_fail"
  ELSE "deliver"

\* mutant: a missing campaign is not noticed by the load
DoesNotExist_ContactOnly(c) == c \in deleted

\* lines 30-31, 174-182: Contact.DoesNotExist or Campaign.DoesNotExist is raised
\* by the two loads; both handlers return and leave log_status = 'failed'
DoesNotExist(c) == c \in deleted \/ ~CampaignExists

\* lines 30-53, 114-158: take a job, load contact, campaign, template and settings
send_single_email_task_load(w) ==
  /\ worker[w].pc = "idle"
  /\ \E c \in Contacts :
       /\ send_queue[c] > 0
       /\ send_queue' = [send_queue EXCEPT ![c] = @ - 1]
       /\ LET next == IF DoesNotExist(c) THEN "not_found"
                      ELSE Preconditions(contact[c].subscribed)
          IN worker' = [worker EXCEPT ![w] =
               [pc |-> IF next \in {"skip", "not_found"} THEN "log" ELSE next,
                contact_id |-> c, subscribed |-> contact[c].subscribed,
                has_campaign |-> (next # "not_found"),
                log_status |-> IF next = "skip" THEN "skipped" ELSE "failed",
                found |-> 0]]
  /\ UNCHANGED <<contact, campaign, settings, logs, outbox, dispatch_queue, dispatcher,
                 lock, now, ndispatch, nredeliver, deleted, poller, tracker>>

\* lines 39, 45, 157: the failure branch increments failed_to_send, then raises
send_single_email_task_cfg_fail(w) ==
  /\ worker[w].pc = "cfg_fail"
  /\ RowFree
  /\ campaign' = UPDATE(inc_failed)
  /\ worker' = [worker EXCEPT ![w].pc = "except"]
  /\ UNCHANGED <<contact, settings, logs, outbox, send_queue, dispatch_queue, dispatcher,
                 lock, now, ndispatch, nredeliver, deleted, poller, tracker>>

\* lines 183-190: the generic handler increments failed_to_send
send_single_email_task_except(w) ==
  /\ worker[w].pc = "except"
  /\ RowFree
  /\ campaign' = UPDATE(inc_failed)
  /\ worker' = [worker EXCEPT ![w].pc = "log"]
  /\ UNCHANGED <<contact, settings, logs, outbox, send_queue, dispatch_queue, dispatcher,
                 lock, now, ndispatch, nredeliver, deleted, poller, tracker>>

\* lines 160-170: send_mail accepts the message, or raises
send_single_email_task_deliver(w) ==
  /\ worker[w].pc = "deliver"
  /\ \/ /\ outbox' = [outbox EXCEPT ![worker[w].contact_id] = @ + 1]
        /\ worker' = [worker EXCEPT ![w].pc = "sent", ![w].log_status = "success"]
     \/ /\ worker' = [worker EXCEPT ![w].pc = "except"]
        /\ UNCHANGED outbox
  /\ UNCHANGED <<contact, campaign, settings, logs, send_queue, dispatch_queue, dispatcher,
                 lock, now, ndispatch, nredeliver, deleted, poller, tracker>>

\* line 171: the success branch increments successfully_sent
send_single_email_task_sent(w) ==
  /\ worker[w].pc = "sent"
  /\ RowFree
  /\ campaign' = UPDATE(inc_sent)
  /\ worker' = [worker EXCEPT ![w].pc = "log"]
  /\ UNCHANGED <<contact, settings, logs, outbox, send_queue, dispatch_queue, dispatcher,
                 lock, now, ndispatch, nredeliver, deleted, poller, tracker>>

\* rows update_or_create looks up: campaign_id, contact_id and email_address
LogRows(c) ==
  { i \in 1..Len(logs[c]) :
      logs[c][i].contact = c /\ logs[c][i].email_address = contact[c].email }

\* lines 216-228, first half of update_or_create: SELECT the row of the key
send_single_email_task_log_get(w) ==
  /\ worker[w].pc = "log"
  /\ LET rows == LogRows(worker[w].contact_id)
     IN worker' = [worker EXCEPT ![w] =
          IF Cardinality(rows) > 1
            THEN IdleWorker
            ELSE [@ EXCEPT !.pc = "log_write",
                           !.found = IF rows = {} THEN 0 ELSE CHOOSE i \in rows : TRUE]]
  /\ UNCHANGED <<contact, campaign, settings, logs, outbox, send_queue, dispatch_queue,
                 dispatcher, lock, now, ndispatch, nredeliver, deleted, poller, tracker>>

\* second half of update_or_create: UPDATE the row found, or INSERT a new one
\* (CampaignSendLog declares no unique constraint on the key). The INSERT of a
\* row whose campaign or contact is gone violates the foreign key: the
\* IntegrityError leaves the finally block, line 236 is not reached
send_single_email_task_log_write(w) ==
  /\ worker[w].pc = "log_write"
  /\ LET c == worker[w].contact_id
     IN IF worker[w].found # 0
          THEN /\ logs' = [logs EXCEPT ![c][worker[w].found].status = worker[w].log_status]
               /\ worker' = [worker EXCEPT ![w].pc = "check"]
        ELSE IF DoesNotExist(c)
          THEN /\ logs' = logs
               /\ worker' = [worker EXCEPT ![w] = IdleWorker]
        ELSE /\ logs' = [logs EXCEPT ![c] = Append(@, [email_address |-> contact[c].email,
                                                       contact |-> c,
                                                       status |-> worker[w].log_status,
                                                       opened_at |-> NullTime])]
             /\ worker' = [worker EXCEPT ![w].pc = "check"]
  /\ UNCHANGED <<contact, campaign, settings, outbox, send_queue, dispatch_queue,
                 dispatcher, lock, now, ndispatch, nredeliver, deleted, poller, tracker>>

\* ------------------------------------------------ check_campaign_completion
\* mutant: the completion check runs without the row lock
LockFree_NoLock == TRUE

\* select_for_update() waits until no other transaction holds the row
LockFree == lock = None

\* mutant: the completion check goes on whatever the status
NotSending_Never == FALSE

\* line 251: campaign.status != 'sending'
NotSending == campaign.status # "sending"

\* lines 246-253, 341-342: lock the row; a campaign that is gone or is not
\* sending is left alone
check_campaign_completion_lock(w) ==
  /\ worker[w].pc = "check"
  /\ LockFree
  /\ IF ~CampaignExists \/ NotSending
       THEN /\ worker' = [worker EXCEPT ![w] = IdleWorker]
            /\ UNCHANGED lock
       ELSE /\ worker' = [worker EXCEPT ![w].pc = "decide"]
            /\ lock' = w
  /\ UNCHANGED <<contact, campaign, settings, logs, outbox, send_queue, dispatch_queue,
                 dispatcher, now, ndispatch, nredeliver, deleted, poller, tracker>>

\* mutant: a finished campaign is marked sent even when a recipient failed
Finalize_AlwaysSent ==
  LET processed_count == campaign.successfully_sent + campaign.failed_to_send
  IN IF processed_count >= campaign.total_recipients /\ campaign.total_recipients > 0
       THEN [campaign EXCEPT !.sent_at = now, !.status = "sent"]
     ELSE IF campaign.total_recipients = 0
       THEN [campaign EXCEPT !.sent_at = now, !.status = "failed"]
     ELSE campaign

\* lines 273-339: the finalization decision on the refreshed counters
Finalize ==
  LET processed_count == campaign.successfully_sent + campaign.failed_to_send
  IN IF processed_count >= campaign.total_recipients /\ campaign.total_recipients > 0
       THEN [campaign EXCEPT !.sent_at = now,
               !.status = IF campaign.failed_to_send > 0 THEN "failed" ELSE "sent"]
     ELSE IF campaign.total_recipients = 0
       THEN [campaign EXCEPT !.sent_at = now, !.status = "failed"]
     ELSE campaign

\* lines 273-339: refresh the counters, decide, save status and sent_at, commit
check_campaign_completion_decide(w) ==
  /\ worker[w].pc = "decide"
  /\ campaign' = Finalize
  /\ now' = IF Finalize # campaign THEN now + 1 ELSE now
  /\ lock' = IF lock = w THEN None ELSE lock
  /\ worker' = [worker EXCEPT ![w] = IdleWorker]
  /\ UNCHANGED <<contact, settings, logs, outbox, send_queue, dispatch_queue,
                 dispatcher, ndispatch, nredeliver, deleted, poller, tracker>>

send_single_email_task(w) ==
  \/ send_single_email_task_load(w)
  \/ send_single_email_task_cfg_fail(w)
  \/ send_single_email_task_except(w)
  \/ send_single_email_task_deliver(w)
  \/ send_single_email_task_sent(w)
  \/ send_single_email_task_log_get(w)
  \/ send_single_email_task_log_write(w)
  \/ check_campaign_completion_lock(w)
  \/ check_campaign_completion_decide(w)

\* ----------------------------------------------------------- task queue
\* at-least-once delivery: a pending send job is delivered once more
redeliver(c) ==
  /\ send_queue[c] > 0
  /\ nredeliver < MaxRedeliver
  /\ send_queue' = [send_queue EXCEPT ![c] = @ + 1]
  /\ nredeliver' = nredeliver + 1
  /\ UNCHANGED <<contact, campaign, settings, logs, outbox, dispatch_queue, worker,
                 dispatcher, lock, now, ndispatch, deleted, poller, tracker>>

\* ------------------------------------------------ operator interventions
\* a running update_or_create holds the log row it found (select_for_update)
LogRowHeld(c) ==
  \E w \in Workers :
     worker[w].pc = "log_write" /\ worker[w].found # 0 /\ worker[w].contact_id = c

\* delete_contact: contact.delete(); CampaignSendLog.contact is SET_NULL
delete_contact(c) ==
  /\ c \notin deleted
  /\ ~LogRowHeld(c)
  /\ deleted' = deleted \cup {c}
  /\ logs' = [logs EXCEPT ![c] = [i \in 1..Len(@) |-> [@[i] EXCEPT !.contact = None]]]
  /\ UNCHANGED <<contact, campaign, settings, outbox, send_queue, dispatch_queue, worker,
                 dispatcher, lock, now, ndispatch, nredeliver, poller, tracker>>

\* the statuses the operator picks in the admin change form
AdminStatusInputs == {"sent", "archived"}

\* CampaignAdmin change form: 'status' is an editable field
CampaignAdmin_change(st) ==
  /\ CampaignExists
  /\ RowFree
  /\ campaign.status # st
  /\ campaign' = [campaign EXCEPT !.status = st]
  /\ UNCHANGED <<contact, settings, logs, outbox, send_queue, dispatch_queue, worker,
                 dispatcher, lock, now, ndispatch, nredeliver, deleted, poller, tracker>>

\* CampaignAdmin delete: the campaign row goes, its log rows cascade
CampaignAdmin_delete ==
  /\ CampaignExists
  /\ RowFree
  /\ \A c \in Contacts : ~LogRowHeld(c)
  /\ deleted' = deleted \cup {TheCampaign}
  /\ logs' = [c \in Contacts |-> <<>>]
  /\ UNCHANGED <<contact, campaign, settings, outbox, send_queue, dispatch_queue, worker,
                 dispatcher, lock, now, ndispatch, nredeliver, poller, tracker>>

\* ------------------------------------------------------------ track_open
\* views.py 868: filter(campaign_id, contact_id).first() under Meta.ordering
\* -sent_at: the row inserted last, 0 when there is none
first_log(c) ==
  LET rows == { i \in 1..Len(logs[c]) : logs[c][i].contact = c }
  IN IF rows = {} THEN 0 ELSE CHOOSE i \in rows : \A j \in rows : j <= i

\* views.py 868-869: the row is read and `log and not log.opened_at` decided
track_open_read(t, c) ==
  /\ tracker[t].pc = "idle"
  /\ CampaignExists
  /\ LET row == first_log(c)
     IN tracker' = [tracker EXCEPT ![t] =
          [pc |-> IF row # 0 /\ logs[c][row].opened_at = NullTime
                    THEN "save" ELSE "respond",
           contact_id |-> c, row |-> row]]
  /\ UNCHANGED <<contact, campaign, settings, logs, outbox, send_queue, dispatch_queue,
                 worker, dispatcher, lock, now, ndispatch, nredeliver, deleted, poller>>

\* views.py 870-871: opened_at = timezone.now(), save(update_fields=['opened_at'])
track_open_save(t) ==
  /\ tracker[t].pc = "save"
  /\ logs' = [logs EXCEPT ![tracker[t].contact_id][tracker[t].row].opened_at = now]
  /\ tracker' = [tracker EXCEPT ![t].pc = "respond"]
  /\ UNCHANGED <<contact, campaign, settings, outbox, send_queue, dispatch_queue,
                 worker, dispatcher, lock, now, ndispatch, nredeliver, deleted, poller>>

\* views.py 874-875: the pixel is returned
track_open_respond(t) ==
  /\ tracker[t].pc = "respond"
  /\ tracker' = [tracker EXCEPT ![t] = IdleTracker]
  /\ UNCHANGED <<contact, campaign, settings, logs, outbox, send_queue, dispatch_queue,
                 worker, dispatcher, lock, now, ndispatch, nredeliver, deleted, poller>>

track_open(t) ==
  \/ \E c \in Contacts : track_open_read(t, c)
  \/ track_open_save(t)
  \/ track_open_respond(t)

\* the clock advances between requests
tick ==
  /\ now < MaxTime
  /\ now' = now + 1
  /\ UNCHANGED <<contact, campaign, settings, logs, outbox, send_queue, dispatch_queue,
                 worker, dispatcher, lock, ndispatch, nredeliver, deleted, poller, tracker>>

Next ==
  \/ execute_send_campaign
  \/ check_scheduled_campaigns_task
  \/ \E d \in Dispatchers : process_campaign_task(d)
  \/ \E w \in Workers : send_single_email_task(w)
  \/ \E c \in Contacts : unsubscribe_contact_view(c)

Spec == Init /\ [][Next]_vars

\* the pipeline with one more re-send of the campaign
NextResend ==
  \/ execute_send_campaign_upto(MaxResend)
  \/ check_scheduled_campaigns_task
  \/ \E d \in Dispatchers : process_campaign_task(d)
  \/ \E w \in Workers : send_single_email_task(w)
  \/ \E c \in Contacts : unsubscribe_contact_view(c)

SpecResend == Init /\ [][NextResend]_vars

\* the scheduled dispatch on a task queue that delivers some jobs more than once
NextRedeliver ==
  \/ check_scheduled_campaigns_task
  \/ \E d \in Dispatchers : process_campaign_task(d)
  \/ \E w \in Workers : send_single_email_task(w)
  \/ \E c \in Contacts : unsubscribe_contact_view(c)
  \/ \E c \in Contacts : redeliver(c)

SpecRedeliver == Init /\ [][NextRedeliver]_vars

\* the scheduled dispatch while the operator deletes contacts, edits the
\* campaign's status in the admin and deletes the campaign
NextAdmin ==
  \/ check_scheduled_campaigns_task
  \/ \E d \in Dispatchers : process_campaign_task(d)
  \/ \E w \in Workers : send_single_email_task(w)
  \/ \E c \in Contacts : delete_contact(c)
  \/ \E st \in AdminStatusInputs : CampaignAdmin_change(st)
  \/ CampaignAdmin_delete

SpecAdmin == Init /\ [][NextAdmin]_vars

\* campaigns the poller may or may not pick up: scheduled or draft, with no
\* scheduled_at, one that is due, one that is not
InitPoll ==
  /\ InitRuntime
  /\ contact = [c \in Contacts |->
        [email |-> IF c = "c1" THEN "c1@x.io" ELSE "c2@x.io", subscribed |-> TRUE,
         contact_list |-> "L1", company |-> <<>>, custom_fields |-> <<>>]]
  /\ settings = [sender_email |-> "s@x.io"]
  /\ \E st \in {"scheduled", "draft"}, at \in {NullTime, 1, 2},
        tpl \in {"T_ok", "T_body"} :
       campaign = NewCampaign(st, at, {"L1"}, {}, tpl)

\* poller runs that overlap, with the dispatches and sends they start
NextPoll ==
  \/ \E p \in Pollers : check_scheduled_campaigns_task_run(p)
  \/ \E d \in Dispatchers : process_campaign_task(d)
  \/ \E w \in Workers : send_single_email_task(w)
  \/ \E c \in Contacts : unsubscribe_contact_view(c)

SpecPoll == InitPoll /\ [][NextPoll]_vars

\* the scheduled dispatch while recipients open their messages
NextTrack ==
  \/ check_scheduled_campaigns_task
  \/ \E d \in Dispatchers : process_campaign_task(d)
  \/ \E w \in Workers : send_single_email_task(w)
  \/ \E c \in Contacts : unsubscribe_contact_view(c)
  \/ \E t \in Trackers : track_open(t)
  \/ tick

SpecTrack == Init /\ [][NextTrack]_vars

\* ======================================================== properties
Terminal == {"sent", "failed"}

processed_count == campaign.successfully_sent + campaign.failed_to_send

\* no task is pending or running
Quiescent ==
  /\ dispatch_queue = 0
  /\ \A d \in Dispatchers : dispatcher[d].pc = "idle"
  /\ \A c \in Contacts : send_queue[c] = 0
  /\ \A w \in Workers : worker[w].pc = "idle"

\* no dispatcher is pending or running
DispatchDone ==
  /\ dispatch_queue = 0
  /\ \A d \in Dispatchers : dispatcher[d].pc = "idle"

\* contacts a send task has logged an outcome for
Logged == { c \in Contacts : Len(logs[c]) > 0 }

\* C1: after the first dispatch resolved N > 0 recipients and all N send tasks
\* have completed, the campaign is sent or failed, sent_at is set and
\* successfully_sent + failed_to_send = N.
C1_AllWorkersDone ==
  ( /\ Quiescent
    /\ ndispatch = 1
    /\ campaign.total_recipients > 0
    /\ Cardinality(Logged) = campaign.total_recipients )
  => /\ campaign.status \in Terminal
     /\ campaign.sent_at # NullTime
     /\ processed_count = campaign.total_recipients

\* C2: while the campaign is sending, successfully_sent + failed_to_send never
\* exceeds total_recipients.
C2_CountersBounded ==
  campaign.status = "sending" => processed_count <= campaign.total_recipients

\* a check_campaign_completion call of w returns in this step
CheckReturns(w) == worker[w].pc \in {"check", "decide"} /\ worker'[w].pc = "idle"

\* C3: whatever the interleaving of the completion checks, a check that finds
\* the campaign no longer sending writes nothing, the only write a check makes
\* is the one transition sending -> sent/failed with sent_at set, and the check
\* that holds the row with all recipients counted makes that transition.
C3_FinalizedOnce ==
  [][\A w \in Workers : CheckReturns(w) =>
        /\ \/ /\ campaign'.status = campaign.status
              /\ campaign'.sent_at = campaign.sent_at
           \/ /\ campaign.status = "sending"
              /\ campaign'.status \in Terminal
              /\ campaign'.sent_at # NullTime
        /\ (campaign.status # "sending" => campaign' = campaign)
        /\ ( /\ worker[w].pc = "decide"
             /\ campaign.total_recipients > 0
             /\ processed_count >= campaign.total_recipients )
           => campaign'.status \in Terminal]_vars

\* C3 witness: both workers are about to run the completion check of a sending
\* campaign whose recipients are all counted
C3_Witness ==
  /\ \A w \in Workers : worker[w].pc = "check"
  /\ campaign.status = "sending"
  /\ campaign.total_recipients > 0
  /\ processed_count >= campaign.total_recipients

\* C4: however often, and however concurrently, the send task runs for a
\* (contact, campaign) pair, the pair has at most one CampaignSendLog row.
C4_OneLogRow == \A c \in Contacts : Len(logs[c]) <= 1

\* a step of dispatcher d that resolved no recipient
EmptyStep(d) ==
  /\ dispatcher[d].count = 0
  /\ dispatcher[d].pc \in {"total", "empty"}
  /\ dispatcher'[d] # dispatcher[d]

\* C5: a dispatch that resolves no recipient stores total_recipients = 0, ends
\* with status failed and sent_at set, and enqueues no send job.
C5_EmptyDispatchFails ==
  [][\A d \in Dispatchers : EmptyStep(d) =>
        /\ send_queue' = send_queue
        /\ campaign'.total_recipients = 0
        /\ dispatcher[d].pc = "total" => dispatcher'[d].pc = "empty"
        /\ dispatcher[d].pc = "empty" =>
             /\ campaign'.status = "failed"
             /\ campaign'.sent_at # NullTime
             /\ dispatcher'[d].pc = "idle"]_vars

\* C6: a campaign linked to no list and no segment resolves no recipient: its
\* dispatcher counts 0, stores total_recipients = 0, enqueues no job and
\* leaves the campaign failed.
C6_NoAudienceNoRecipients ==
  (campaign.contact_lists = {} /\ campaign.segments = {}) =>
     /\ \A c \in Contacts : send_queue[c] = 0
     /\ \A d \in Dispatchers : dispatcher[d].count = 0
     /\ campaign.total_recipients = 0
     /\ DispatchDone => campaign.status = "failed"

\* C7: every send job the dispatcher enqueues is for a contact that is
\* subscribed and has a non-empty email when the recipient query runs.
C7_RecipientsSubscribed ==
  [][\A c \in Contacts : send_queue'[c] > send_queue[c] =>
        /\ contact[c].subscribed
        /\ contact[c].email # None
        /\ contact[c].email # ""]_vars

\* C7 witness: a campaign linked to the segment of unsubscribed contacts was
\* dispatched; a job was enqueued, none for an unsubscribed contact
C7_Witness ==
  /\ "U" \in campaign.segments
  /\ DispatchDone
  /\ \E c \in Contacts : send_queue[c] = 0 /\ ~contact[c].subscribed /\ contact[c].email # ""
  /\ \E c \in Contacts : send_queue[c] > 0

\* worker w takes a job in this step and loads an unsubscribed contact while
\* sender and template are present
LoadsUnsubscribed(w) ==
  /\ worker[w].pc = "idle"
  /\ worker'[w].pc # "idle"
  /\ ~worker'[w].subscribed
  /\ settings.sender_email # ""
  /\ campaign.email_template # None

\* worker w, carrying the skipped outcome, takes a step
SkippedStep(w) == worker[w].log_status = "skipped" /\ worker'[w] # worker[w]

\* C8: a send task that loads an unsubscribed contact (sender and template
\* present) takes the skipped outcome; from there on it hands nothing to
\* send_mail, changes neither counter, writes a log row with status skipped
\* and goes on to the completion check.
C8_SkipIsNotFailure ==
  [][\A w \in Workers :
        /\ LoadsUnsubscribed(w) =>
             /\ worker'[w].log_status = "skipped"
             /\ worker'[w].pc = "log"
             /\ outbox' = outbox
             /\ campaign' = campaign
        /\ SkippedStep(w) =>
             /\ outbox' = outbox
             /\ campaign'.failed_to_send = campaign.failed_to_send
             /\ campaign'.successfully_sent = campaign.successfully_sent
             /\ worker[w].pc = "log" => worker'[w].pc = "log_write"
             /\ worker[w].pc = "log_write" =>
                  /\ worker'[w].pc = "check"
                  /\ \E i \in 1..Len(logs'[worker[w].contact_id]) :
                       /\ logs'[worker[w].contact_id][i].status = "skipped"
                       /\ (i > Len(logs[worker[w].contact_id])
                           \/ logs[worker[w].contact_id][i].status # "skipped"
                           \/ worker[w].found = i)]_vars

\* contact c is subscribed and has an email
Eligible(c) == contact[c].subscribed /\ contact[c].email # ""

\* contact c satisfies the filter of at least one segment linked to the campaign
MatchesSegment(c) == \E sg \in campaign.segments : c \in segment_qs(segment[sg])

\* contact c belongs to a list linked to the campaign
InLinkedList(c) == contact[c].contact_list \in campaign.contact_lists

\* dispatcher d runs its COUNT / its enqueue loop in this step
CountStep(d) == dispatcher[d].pc = "count" /\ dispatcher'[d].pc = "total"

EnqueueStep(d) == dispatcher[d].pc = "enqueue" /\ dispatcher'[d].pc = "idle"

\* C9: for a campaign linked to segments, every subscribed contact with an email
\* that matches at least one linked segment (and, when lists are linked too,
\* belongs to a linked list) is counted once and gets exactly one send job.
C9_SegmentUnionOnce ==
  [][\A d \in Dispatchers : campaign.segments # {} =>
        LET matched == { c \in Contacts : /\ Eligible(c)
                                          /\ MatchesSegment(c)
                                          /\ campaign.contact_lists # {} => InLinkedList(c) }
        IN /\ CountStep(d) => dispatcher'[d].count = Cardinality(matched)
           /\ EnqueueStep(d) => \A c \in matched : send_queue'[c] = send_queue[c] + 1]_vars

\* C9 witness: a campaign linked to segments A and B only has been dispatched;
\* a contact matching both and a contact matching only one each got one job
C9_Witness ==
  /\ campaign.segments = {"A", "B"}
  /\ campaign.contact_lists = {}
  /\ DispatchDone
  /\ campaign.total_recipients = 2
  /\ \E c \in Contacts : /\ c \in segment_qs(segment["A"]) /\ c \in segment_qs(segment["B"])
                         /\ send_queue[c] = 1
  /\ \E c \in Contacts : /\ c \in segment_qs(segment["A"]) /\ c \notin segment_qs(segment["B"])
                         /\ send_queue[c] = 1

\* C10 as claimed: for a campaign linked to lists and segments, every eligible
\* contact that is in a linked list or matches a linked segment gets a send job.
C10_ListsAndSegmentsUnion ==
  [][\A d \in Dispatchers :
        (campaign.contact_lists # {} /\ campaign.segments # {} /\ EnqueueStep(d)) =>
           \A c \in Contacts : (Eligible(c) /\ (InLinkedList(c) \/ MatchesSegment(c)))
                                  => send_queue'[c] = send_queue[c] + 1]_vars

\* C10 amended: for a campaign linked to lists and segments the recipients are
\* exactly the eligible contacts that are in a linked list and match a linked
\* segment: these are counted and get one job each, no other contact gets one.
C10_ListsAndSegmentsIntersect ==
  [][\A d \in Dispatchers : (campaign.contact_lists # {} /\ campaign.segments # {}) =>
        LET both == { c \in Contacts : Eligible(c) /\ InLinkedList(c) /\ MatchesSegment(c) }
        IN /\ CountStep(d) => dispatcher'[d].count = Cardinality(both)
           /\ EnqueueStep(d) => \A c \in Contacts :
                send_queue'[c] = IF c \in both THEN send_queue[c] + 1 ELSE send_queue[c]]_vars

\* C10 witness: after the dispatch of a campaign linked to lists and segments, an
\* eligible member of a linked list that matches no linked segment has no job,
\* an eligible contact that matches a segment but is in no linked list has none
\* either
C10_Witness ==
  /\ campaign.contact_lists # {}
  /\ campaign.segments # {}
  /\ DispatchDone
  /\ \E c \in Contacts : Eligible(c) /\ InLinkedList(c) /\ ~MatchesSegment(c) /\ send_queue[c] = 0
  /\ \E c \in Contacts : Eligible(c) /\ ~InLinkedList(c) /\ MatchesSegment(c) /\ send_queue[c] = 0

\* a process_campaign_task job is taken off the queue in this step
DispatchStarts == dispatch_queue' = dispatch_queue - 1

\* C11: a dispatcher invoked on a campaign whose status is sent or archived
\* changes no campaign field, enqueues no send job and ends at once.
C11_RejectsNonDispatchable ==
  [][(DispatchStarts /\ CampaignExists /\ campaign.status \in {"sent", "archived"})
       => /\ campaign' = campaign
          /\ send_queue' = send_queue
          /\ \A d \in Dispatchers : dispatcher'[d].pc = "idle"]_vars

\* C11 witness: the one dispatch job was taken while the campaign was sent or
\* archived and has left no trace
C11_Witness ==
  /\ ndispatch = 1
  /\ DispatchDone
  /\ deleted = {}
  /\ campaign.status \in {"sent", "archived"}
  /\ campaign.sent_at = NullTime
  /\ Logged = {}
  /\ \A c \in Contacts : send_queue[c] = 0 /\ outbox[c] = 0
  /\ \A w \in Workers : worker[w].pc = "idle"

\* dispatcher d runs its reset UPDATE / its total_recipients UPDATE in this step
ResetStep(d) == dispatcher[d].pc = "reset" /\ dispatcher'[d].pc = "count"

TotalStep(d) == dispatcher[d].pc = "total" /\ dispatcher'[d].pc # "total"

\* the contacts a dispatch has to resolve, read off the store
Resolved ==
  { c \in Contacts : /\ Eligible(c)
                     /\ campaign.contact_lists # {} => InLinkedList(c)
                     /\ campaign.segments # {} => MatchesSegment(c) }

\* C12: an accepted dispatch sets successfully_sent = 0, failed_to_send = 0,
\* sent_at = null and status = sending in one step, whatever they were, and
\* afterwards stores as total_recipients the size of the recipient set it
\* counted.
C12_ResetOnDispatch ==
  [][\A d \in Dispatchers :
        /\ ResetStep(d) =>
             campaign' = [campaign EXCEPT !.status = "sending", !.successfully_sent = 0,
                                          !.failed_to_send = 0, !.sent_at = NullTime]
        /\ CountStep(d) => dispatcher'[d].count = Cardinality(Resolved)
        /\ TotalStep(d) =>
             campaign' = [campaign EXCEPT !.total_recipients = dispatcher[d].count]]_vars

\* C12 witness: a second dispatch of a campaign that had delivered mail has
\* reset the row and stored its own count
C12_Witness ==
  /\ ndispatch >= 2
  /\ \E c \in Contacts : \E i \in 1..Len(logs[c]) : logs[c][i].status = "success"
  /\ \E d \in Dispatchers :
        /\ dispatcher[d].pc = "enqueue"
        /\ campaign.total_recipients = dispatcher[d].count
  /\ campaign.status = "sending"
  /\ campaign.sent_at = NullTime
  /\ processed_count = 0

\* C13: the enqueue loop of a dispatch that counted N > 0 recipients adds
\* exactly N send jobs, at most one per contact, and N is the total_recipients
\* recorded for the dispatch.
C13_OneJobPerRecipient ==
  [][\A d \in Dispatchers : EnqueueStep(d) =>
        LET queued == { c \in Contacts : send_queue'[c] = send_queue[c] + 1 }
        IN /\ \A c \in Contacts \ queued : send_queue'[c] = send_queue[c]
           /\ Cardinality(queued) = dispatcher[d].count
           /\ Cardinality(queued) = campaign.total_recipients]_vars

\* worker w enters check_campaign_completion in this step
CheckStarts(w) == worker[w].pc = "check" /\ worker'[w] # worker[w]

\* C14: check_campaign_completion on a campaign whose status is not sending
\* returns without changing any field of the campaign, whatever the counters.
C14_CheckNoOpUnlessSending ==
  [][\A w \in Workers : (CheckStarts(w) /\ campaign.status # "sending") =>
        /\ campaign' = campaign
        /\ worker'[w].pc = "idle"]_vars

\* C14 witness: a send task reaches the completion check of a campaign that
\* was queued again, with all its recipients counted
C14_Witness ==
  /\ \E w \in Workers : worker[w].pc = "check"
  /\ campaign.status = "queued"
  /\ campaign.total_recipients > 0
  /\ processed_count >= campaign.total_recipients

\* worker w, holding the row of a sending campaign, decides and commits
DecideStep(w) == worker[w].pc = "decide" /\ worker'[w].pc = "idle"

\* C15: the completion check of a sending campaign finalizes it exactly when
\* total_recipients = 0 or successfully_sent + failed_to_send >= total_recipients;
\* it then sets sent_at, and the status is failed if failed_to_send > 0 or
\* total_recipients = 0 and sent otherwise; else status and sent_at stay.
C15_FinalizeRule ==
  [][\A w \in Workers : DecideStep(w) =>
        /\ campaign.status = "sending"
        /\ IF campaign.total_recipients = 0 \/ processed_count >= campaign.total_recipients
             THEN /\ campaign'.status =
                       IF campaign.failed_to_send > 0 \/ campaign.total_recipients = 0
                         THEN "failed" ELSE "sent"
                  /\ campaign'.sent_at = now
                  /\ campaign'.sent_at # NullTime
             ELSE /\ campaign'.status = campaign.status
                  /\ campaign'.sent_at = campaign.sent_at
        /\ campaign'.total_recipients = campaign.total_recipients
        /\ campaign'.successfully_sent = campaign.successfully_sent
        /\ campaign'.failed_to_send = campaign.failed_to_send]_vars

\* C15 witness: a campaign with one delivered and one failed recipient has been
\* finalized as failed
C15_Witness ==
  /\ campaign.status = "failed"
  /\ campaign.sent_at # NullTime
  /\ campaign.total_recipients = 2
  /\ campaign.successfully_sent = 1
  /\ campaign.failed_to_send = 1
  /\ Quiescent

\* worker w handles the exception send_mail raised: it is in the generic
\* handler although sender, template and rendering were in order
TransportFailureHandled(w) ==
  /\ worker[w].pc = "except"
  /\ Preconditions(worker[w].subscribed) = "deliver"
  /\ worker'[w] # worker[w]

\* C16: a send task whose send_mail call fails is retried: the failure of a
\* first attempt (0 of 3 retries used) puts the job back on the queue and does
\* not count the recipient in failed_to_send.
C16_TransportFailureRetried ==
  [][\A w \in Workers : TransportFailureHandled(w) =>
        /\ campaign'.failed_to_send = campaign.failed_to_send
        /\ send_queue'[worker[w].contact_id] = send_queue[worker[w].contact_id] + 1]_vars

\* worker w, its outcome for the recipient decided, takes a step of the
\* logging in the finally block
LogStep(w) == worker[w].pc \in {"log", "log_write"} /\ worker'[w] # worker[w]

\* C17: every send task that has reached an outcome for its recipient of an
\* existing campaign (delivered, failed, skipped or contact not found) upserts
\* one log row carrying the outcome for the pair and goes on to invoke
\* check_campaign_completion.
C17_LogAndCheckAlways ==
  [][\A w \in Workers : (LogStep(w) /\ CampaignExists) =>
        LET c == worker[w].contact_id
        IN /\ worker[w].pc = "log" => worker'[w].pc = "log_write"
           /\ worker[w].pc = "log_write" =>
                /\ worker'[w].pc = "check"
                /\ Len(logs'[c]) <= Len(logs[c]) + 1
                /\ \E i \in 1..Len(logs'[c]) :
                     /\ logs'[c][i].status = worker[w].log_status
                     /\ (i > Len(logs[c]) \/ worker[w].found = i)]_vars

\* contacts whose send task logged failed
LoggedFailed ==
  { c \in Contacts : \E i \in 1..Len(logs[c]) : logs[c][i].status = "failed" }

\* C18: with the sender missing, no template, or a body or footer syntax
\* error, each send task counts its recipient once in failed_to_send: when the
\* first dispatch is over and all its N recipients are logged, failed_to_send
\* is the number of recipients logged failed and the campaign is failed.
C18_ConfigFailureCountedOnce ==
  ( /\ Preconditions(TRUE) = "cfg_fail"
    /\ Quiescent
    /\ ndispatch = 1
    /\ campaign.total_recipients > 0
    /\ LoggedFailed # {}
    /\ Cardinality(Logged) = campaign.total_recipients )
  => /\ campaign.failed_to_send = Cardinality(LoggedFailed)
     /\ campaign.status = "failed"

\* worker w takes the job of a contact that has been deleted
LoadsVanished(w) ==
  /\ worker[w].pc = "idle"
  /\ worker'[w].pc # "idle"
  /\ worker'[w].contact_id \in deleted

\* C19: a send task whose contact is gone while the campaign exists changes
\* neither counter, hands nothing to send_mail, and still reaches
\* check_campaign_completion after its logging.
C19_VanishedContactStillChecked ==
  [][\A w \in Workers : CampaignExists =>
        /\ LoadsVanished(w) =>
             /\ campaign' = campaign
             /\ outbox' = outbox
             /\ worker'[w].pc = "log"
        /\ (LogStep(w) /\ worker[w].contact_id \in deleted) =>
             /\ campaign' = campaign
             /\ outbox' = outbox
             /\ worker'[w].pc \in {"log_write", "check"}]_vars

\* worker w takes a job in this step
LoadStep(w) == worker[w].pc = "idle" /\ worker'[w].pc # "idle"

\* worker w runs for a campaign id that matched no row when it loaded
CampaignWasMissing(w) ==
  /\ worker[w].pc # "idle"
  /\ ~worker[w].has_campaign
  /\ worker[w].contact_id \notin deleted

\* C20: a send task invoked with the id of a campaign that does not exist goes
\* straight to its logging: it changes no counter, status or sent_at, hands
\* nothing to send_mail, and never enters the sending or failure branches.
C20_MissingCampaignUntouched ==
  [][\A w \in Workers :
        /\ (LoadStep(w) /\ ~CampaignExists) =>
             /\ worker'[w].pc = "log"
             /\ ~worker'[w].has_campaign
             /\ campaign' = campaign
             /\ outbox' = outbox
        /\ (CampaignWasMissing(w) /\ worker'[w] # worker[w]) =>
             /\ worker[w].pc \in {"log", "log_write"}
             /\ campaign' = campaign
             /\ outbox' = outbox
             /\ logs' = logs]_vars

\* C20 witness: a send task is running for an existing contact and a campaign
\* that was deleted before the task loaded it
C20_Witness ==
  /\ ~CampaignExists
  /\ \E w \in Workers : CampaignWasMissing(w) /\ worker[w].pc = "log_write"

\* a poller run saves the campaign as queued and enqueues its dispatcher
PromoteStep(p) ==
  /\ poller[p] = "selected"
  /\ poller'[p] = "idle"
  /\ dispatch_queue' = dispatch_queue + 1

\* C21: the poller promotes a campaign only while it is scheduled and due
\* (status = scheduled, scheduled_at not null and <= now), so that a campaign
\* is promoted, and its dispatcher enqueued, once: not again by a later tick
\* or by an overlapping poller run
C21_PromotedOnce ==
  [][\A p \in Pollers :
        PromoteStep(p) =>
          /\ campaign.status = "scheduled"
          /\ campaign.scheduled_at # NullTime
          /\ campaign.scheduled_at <= now]_vars

\* contacts whose message was accepted once and whose single log row says success
DeliveredOnce ==
  { c \in Contacts : /\ outbox[c] = 1
                     /\ Len(logs[c]) = 1
                     /\ logs[c][1].status = "success" }

\* C22: when every one of the N > 0 send tasks of the dispatch has run once and
\* delivered, whatever the interleaving of the tasks, the campaign is sent with
\* successfully_sent = N, failed_to_send = 0 and sent_at set
C22_AllDeliveredIsSent ==
  ( /\ Quiescent
    /\ ndispatch = 1
    /\ campaign.total_recipients > 0
    /\ Cardinality(DeliveredOnce) = campaign.total_recipients )
  => /\ campaign.status = "sent"
     /\ campaign.successfully_sent = campaign.total_recipients
     /\ campaign.failed_to_send = 0
     /\ campaign.sent_at # NullTime

\* C22 witness: two send tasks ran, both delivered, and the campaign is sent
\* with successfully_sent = 2
C22_Witness ==
  /\ Quiescent
  /\ ndispatch = 1
  /\ campaign.total_recipients = 2
  /\ Cardinality(DeliveredOnce) = 2
  /\ campaign.status = "sent"
  /\ campaign.successfully_sent = 2

\* worker w loads an unsubscribed contact while the sender identity or the
\* campaign's template is missing
LoadsUnsubscribedUnconfigured(w) ==
  /\ LoadStep(w)
  /\ worker'[w].has_campaign
  /\ ~worker'[w].subscribed
  /\ (settings.sender_email = "" \/ campaign.email_template = None)

\* C23: the send task checks sender, then template, then subscription: loading
\* an unsubscribed contact while sender or template is missing takes the
\* failure branch (log_status failed, not skipped), and that branch increments
\* failed_to_send
C23_ConfigCheckedBeforeSubscription ==
  [][\A w \in Workers :
        /\ LoadsUnsubscribedUnconfigured(w) =>
             /\ worker'[w].pc = "cfg_fail"
             /\ worker'[w].log_status = "failed"
        /\ (worker[w].pc = "cfg_fail" /\ worker'[w] # worker[w]) =>
             /\ campaign'.failed_to_send = campaign.failed_to_send + 1
             /\ worker'[w].log_status = "failed"]_vars

\* C23 witness: a task that loaded an unsubscribed contact with the sender or
\* the template missing has incremented failed_to_send
C23_Witness ==
  \E w \in Workers :
     /\ worker[w].pc = "except"
     /\ ~worker[w].subscribed
     /\ (settings.sender_email = "" \/ campaign.email_template = None)
     /\ campaign.failed_to_send > 0

\* the campaign's template has a syntax error in its subject and nowhere else
SubjectBroken ==
  /\ campaign.email_template # None
  /\ TemplateSyntaxError(EmailTemplates[campaign.email_template].subject)
  /\ ~TemplateSyntaxError(EmailTemplates[campaign.email_template].html_content)
  /\ ~TemplateSyntaxError(EmailTemplates[campaign.email_template].footer_html)

\* C24: a syntax error in the subject template does not fail the recipient:
\* the task that loads a subscribed contact goes on to send_mail, and once
\* send_mail accepted the message the task increments successfully_sent, leaves
\* failed_to_send alone and writes a log row with status success
C24_SubjectErrorStillDelivers ==
  [][\A w \in Workers :
        (SubjectBroken /\ settings.sender_email # "") =>
          /\ (LoadStep(w) /\ worker'[w].subscribed) => worker'[w].pc = "deliver"
          /\ (worker[w].pc = "deliver" /\ worker'[w] # worker[w] /\ outbox' # outbox) =>
               /\ worker'[w].pc = "sent"
               /\ worker'[w].log_status = "success"
               /\ campaign' = campaign
          /\ (worker[w].pc = "sent" /\ worker'[w] # worker[w]) =>
               /\ campaign'.successfully_sent = campaign.successfully_sent + 1
               /\ campaign'.failed_to_send = campaign.failed_to_send
               /\ worker'[w].pc = "log"
               /\ worker'[w].log_status = "success"
          /\ (worker[w].pc = "log_write" /\ worker[w].log_status = "success"
                /\ worker'[w] # worker[w]) =>
               \E i \in 1..Len(logs'[worker[w].contact_id]) :
                  logs'[worker[w].contact_id][i].status = "success"]_vars

\* C24 witness: with a broken subject a recipient was delivered, counted in
\* successfully_sent and logged as success, and nothing was counted as failed
C24_Witness ==
  /\ SubjectBroken
  /\ campaign.failed_to_send = 0
  /\ campaign.successfully_sent > 0
  /\ \E c \in Contacts :
       /\ outbox[c] = 1
       /\ Len(logs[c]) = 1
       /\ logs[c][1].status = "success"

\* a dispatch has reset the counters and has not enqueued its send tasks yet:
\* every send task that runs now was enqueued by an earlier dispatch
NewDispatchResolving ==
  \E d \in Dispatchers : dispatcher[d].pc \in {"count", "total", "empty", "enqueue"}

\* C25: a send task enqueued by an earlier, superseded dispatch does not change
\* the counters of the new dispatch and does not finalize it: while the new
\* dispatch has reset the campaign and not yet enqueued its own tasks, a step
\* of a send task leaves successfully_sent, failed_to_send and status alone
C25_StaleWorkerIgnored ==
  [][NewDispatchResolving =>
        \A w \in Workers :
           worker'[w] # worker[w] =>
             /\ campaign'.successfully_sent = campaign.successfully_sent
             /\ campaign'.failed_to_send = campaign.failed_to_send
             /\ campaign'.status = campaign.status]_vars

\* C26: when two dispatcher invocations for the campaign overlap, only one of
\* them enqueues send tasks: in one campaign run no contact is handed to
\* send_mail more than once
C26_OneEmailPerContact == \A c \in Contacts : outbox[c] <= 1

\* C27: whenever the campaign's status is sent, failed_to_send = 0 and
\* successfully_sent = total_recipients, also when the queue delivers the send
\* job of a (contact, campaign) more than once
C27_SentMeansAllDelivered ==
  campaign.status = "sent" =>
    /\ campaign.failed_to_send = 0
    /\ campaign.successfully_sent = campaign.total_recipients

\* C28: sent is absorbing for the send pipeline: no step of the send-now view,
\* the poller, a dispatcher, a send task or the completion check changes the
\* status or the sent_at of a campaign whose status is sent
C28_SentIsAbsorbing ==
  [][campaign.status = "sent" =>
        /\ campaign'.status = "sent"
        /\ campaign'.sent_at = campaign.sent_at]_vars

\* C29: a message is handed to send_mail only by a send task that loaded its
\* contact with subscribed = true; a task that loaded an unsubscribed contact,
\* also one that unsubscribed after the dispatch resolved it, never reaches
\* send_mail
C29_NoSendToUnsubscribed ==
  [][/\ \A w \in Workers :
           worker'[w].pc \in {"deliver", "sent"} => worker'[w].subscribed
     /\ \A c \in Contacts :
           outbox'[c] # outbox[c] =>
             \E w \in Workers : /\ worker[w].pc = "deliver"
                                /\ worker[w].contact_id = c
                                /\ worker[w].subscribed
                                /\ worker'[w].pc = "sent"]_vars

\* C29 witness: a contact the dispatch resolved unsubscribed before its send
\* task loaded it; the task took the skip and nothing was sent to the contact
C29_Witness ==
  \E w \in Workers :
     /\ worker[w].pc = "log"
     /\ worker[w].log_status = "skipped"
     /\ ~worker[w].subscribed
     /\ outbox[worker[w].contact_id] = 0
     /\ campaign.total_recipients = 2

\* a track_open request takes a step
TrackStep == tracker' # tracker

\* C30: track_open records only the first open: it sets opened_at on the log
\* row of the pair when opened_at is null, an opened_at that is set is never
\* written again, no log row is created, and no other field of the log rows
\* and no field of the campaign changes
C30_FirstOpenOnly ==
  [][/\ \A c \in Contacts : \A i \in 1..Len(logs[c]) :
          logs[c][i].opened_at # NullTime =>
            /\ Len(logs'[c]) >= i
            /\ logs'[c][i].opened_at = logs[c][i].opened_at
     /\ TrackStep =>
          /\ campaign' = campaign
          /\ \A c \in Contacts :
               /\ Len(logs'[c]) = Len(logs[c])
               /\ \A i \in 1..Len(logs[c]) :
                    /\ logs'[c][i].status = logs[c][i].status
                    /\ logs'[c][i].contact = logs[c][i].contact
                    /\ logs'[c][i].email_address = logs[c][i].email_address]_vars

NextResolve ==
  \/ \E d \in Dispatchers : process_campaign_task(d)
  \/ \E c \in Contacts : unsubscribe_contact_view(c)

SpecResolve == InitResolve /\ [][NextResolve]_vars
====

